---- MODULE Spec2Model ----
(***************************************************************************)
(* Model of examples/new_command.py: the "config" top-level command of the *)
(* AWS CLI example.  The module models                                     *)
(*   - the registration hook (add_command, awscli_initialize),             *)
(*   - the dispatcher ConfigCommand.__call__ with its operation table,     *)
(*   - the two placeholder operations do_foo / do_bar,                     *)
(*   - the help command and its document event handlers,                   *)
(* together with the collaborators the file calls (argument parser, help   *)
(* machinery, host driver), which live outside examples/new_command.py.    *)
(*                                                                         *)
(* Two specifications are given: Spec drives add_command and the           *)
(* dispatcher directly, the way a unit test does; SpecHost runs the host   *)
(* life cycle (plugin load, command table construction, one dispatch).     *)
(***************************************************************************)
EXTENDS Integers, Sequences, FiniteSets, TLC

VARIABLES
    pc,             \* position of the caller: harness or host phase
    handlers,       \* session event registry: set of <<event, handler>>
    command_table,  \* host command table: name -> command object
    registrations,  \* number of times add_command has run
    command,        \* top-level command name of the last dispatch
    lookup,         \* result of the last command table lookup
    args,           \* tokens handed to the last dispatcher invocation
    parsed_globals, \* global options handed to the last invocation
    op_table,       \* operation table built by the last invocation
    calls,          \* handler invocations made by the last invocation
    stdout,         \* lines printed by the last invocation
    doc,            \* document sections rendered by the last invocation
    outcome,        \* "none" | "returned" | "SystemExit"
    rc              \* process exit status of the last invocation

vars == <<pc, handlers, command_table, registrations, command, lookup, args,
          parsed_globals, op_table, calls, stdout, doc, outcome, rc>>

----------------------------------------------------------------------------
(* Bounds of the model.                                                    *)

MaxArgs == 3
MaxRegistrations == 2

(* Input alphabets.                                                        *)

OptionTokens == {"--opt"}
Tokens == {"foo", "bar", "help", "baz", "--"} \cup OptionTokens
ArgLists == UNION {[1..n -> Tokens] : n \in 0..MaxArgs}
Globals == {"globals_a", "globals_b"}
Sessions == {"session_a", "session_b"}
HostCommands == {"s3", "ec2"}
NoValue == "None"

----------------------------------------------------------------------------
(* Small helpers on sequences and functions.                               *)

EmptyTable == [n \in {} |-> NoValue]

SetItem(table, key, value) ==
    [k \in DOMAIN table \cup {key} |-> IF k = key THEN value ELSE table[k]]

RECURSIVE RemoveFirst(_, _)
RemoveFirst(s, x) ==
    IF s = <<>> THEN <<>>
    ELSE IF Head(s) = x THEN Tail(s)
    ELSE <<Head(s)>> \o RemoveFirst(Tail(s), x)

----------------------------------------------------------------------------
(* Sub-operations and help renderer.                                       *)

ConfigCommand_documentation == "Edit the AWSCLI config file"

\* What a handler does: lines printed, sections rendered, value returned.
Effect(out, sections) == [out |-> out, doc |-> sections, ret |-> NoValue]

do_foo(self, remaining_args, globals) == Effect(<<"do foo now">>, <<>>)

\* Variant: do_bar copied from do_foo with the text left unchanged.
do_bar_copied(self, remaining_args, globals) ==
    Effect(<<"do foo now">>, <<>>)

do_bar(self, remaining_args, globals) == Effect(<<"do bar now">>, <<>>)

ConfigHelpCommand_event_class == "Config"

\* Variant: name answers the event class instead of the command name.
ConfigHelpCommand_name_as_class == "Config"

ConfigHelpCommand_name == "config"

\* ConfigHelpCommand(session, obj, command_table=op_table, arg_table=None)
ConfigHelpCommand(session, obj) ==
    [kind |-> "ConfigHelpCommand",
     name |-> ConfigHelpCommand_name,
     event_class |-> ConfigHelpCommand_event_class,
     session |-> session,
     obj |-> obj]

\* ConfigDocumentEventHandler.title: doc.style.h1(help_command.name)
title(help_command) == <<<<"h1", help_command.name>>>>

\* ConfigDocumentEventHandler.description
description(help_command) ==
    <<<<"h2", "Description">>, <<"text", help_command.obj.documentation>>>>

\* ConfigDocumentEventHandler.initialize: registrations on the session
initialize(session) ==
    {<<<<"doc-title", "Config">>, "title">>,
     <<<<"doc-description", "Config">>, "description">>}

----------------------------------------------------------------------------
(* Help machinery outside examples/new_command.py: HelpCommand.__call__    *)
(* creates the event handler object (whose initialize registers title and  *)
(* description on the session), emits the document events in order, has    *)
(* the document rendered and drops the registrations again.                *)

DocEvents(help_command) ==
    <<<<"doc-title", help_command.event_class>>,
      <<"doc-description", help_command.event_class>>>>

CallDocHandler(h, help_command) ==
    CASE h = "title" -> title(help_command)
      [] h = "description" -> description(help_command)
      [] OTHER -> <<>>

\* One rendered section per emitted event: what the handlers registered
\* for that event wrote into help_command.doc.
RECURSIVE EmitAll(_, _, _)
EmitAll(registry, events, help_command) ==
    IF events = <<>> THEN <<>>
    ELSE LET ev == Head(events)
             hs == {r[2] : r \in {q \in registry : q[1] = ev}}
             body == IF "title" \in hs /\ "description" \in hs
                       THEN title(help_command) \o description(help_command)
                     ELSE IF hs = {} THEN <<>>
                     ELSE CallDocHandler(CHOOSE h \in hs : TRUE, help_command)
         IN  (IF body = <<>> THEN <<>> ELSE <<[event |-> ev[1], body |-> body]>>)
             \o EmitAll(registry, Tail(events), help_command)

\* The result carries the session registry left behind by the call.
WithRegistry(e, registry) ==
    [out |-> e.out, doc |-> e.doc, ret |-> e.ret, registry |-> registry]

HelpCommand_call(help_command, registry) ==
    LET mine == initialize(help_command.session)
        during == registry \cup mine
    IN  WithRegistry(
            Effect(<<>>, EmitAll(during, DocEvents(help_command), help_command)),
            during \ mine)

----------------------------------------------------------------------------
(* Argument parser outside examples/new_command.py: ServiceArgParser is an *)
(* argparse parser with one required positional, 'operation', whose        *)
(* choices are the keys of the operation table, and no options of its own. *)

ServiceArgParser(operations_table, service_name) ==
    [choices |-> DOMAIN operations_table, service_name |-> service_name]

\* argparse's classification of the tokens: "O" an option string, "A" an
\* argument, "-" the first "--"; every token after the first "--" is "A".
ArgPattern(tokens) ==
    [i \in 1..Len(tokens) |->
        IF \E j \in 1..(i - 1) : tokens[j] = "--" THEN "A"
        ELSE IF tokens[i] = "--" THEN "-"
        ELSE IF tokens[i] \in OptionTokens THEN "O"
        ELSE "A"]

\* Number of tokens the pattern of a single positional, -*A-*, takes at
\* position i of the pattern (0: no match).
RECURSIVE DashRun(_, _)
DashRun(pat, i) ==
    IF i <= Len(pat) /\ pat[i] = "-" THEN 1 + DashRun(pat, i + 1) ELSE 0

MatchPositional(pat, i) ==
    LET lead == DashRun(pat, i)
    IN  IF i + lead <= Len(pat) /\ pat[i + lead] = "A"
          THEN lead + 1 + DashRun(pat, i + lead + 1)
        ELSE 0

ParseError == [error |-> TRUE, operation |-> NoValue, remaining |-> <<>>]

\* The parse loop of argparse: positionals are consumed where the pattern
\* allows, unknown option strings and left-over arguments go to the extras
\* in the order met.  pending: 'operation' has not been consumed yet.
RECURSIVE ParseLoop(_, _, _, _, _, _)
ParseLoop(parser, tokens, i, pending, operation, extras) ==
    LET pat == ArgPattern(tokens)
        optIdx == {k \in 1..Len(tokens) : pat[k] = "O" /\ k >= i}
        count == IF pending THEN MatchPositional(pat, i) ELSE 0
        taken == RemoveFirst(SubSeq(tokens, i, i + count - 1), "--")
    IN  IF optIdx # {}
          THEN LET nxt == CHOOSE k \in optIdx : \A m \in optIdx : k <= m
               IN  IF i # nxt /\ count > 0
                     THEN IF taken[1] \notin parser.choices THEN ParseError
                          ELSE ParseLoop(parser, tokens, i + count, FALSE,
                                         taken[1], extras)
                   ELSE ParseLoop(parser, tokens, nxt + 1, pending, operation,
                                  extras \o SubSeq(tokens, i, nxt))
        ELSE IF count > 0
          THEN IF taken[1] \notin parser.choices THEN ParseError
               ELSE [error |-> FALSE, operation |-> taken[1],
                     remaining |->
                        extras \o SubSeq(tokens, i + count, Len(tokens))]
        ELSE IF pending THEN ParseError
        ELSE [error |-> FALSE, operation |-> operation,
              remaining |-> extras \o SubSeq(tokens, i, Len(tokens))]

parse_known_args(parser, tokens) ==
    ParseLoop(parser, tokens, 1, TRUE, NoValue, <<>>)

----------------------------------------------------------------------------
(* ConfigCommand: the dispatcher.                                          *)

\* ConfigCommand('config', session); serial tells the instances apart.
ConfigCommand(name, session, serial) ==
    [cls |-> "ConfigCommand", name |-> name, session |-> session,
     serial |-> serial, documentation |-> ConfigCommand_documentation]

\* A table entry for a bound method of the command object.
Method(name) == [kind |-> "method", name |-> name]

\* Variant: a further verb is entered into the table.
_create_operations_table_extra(self) ==
    [k \in {"foo", "bar", "baz", "help"} |->
        IF k = "help" THEN ConfigHelpCommand(self.session, self)
        ELSE IF k = "bar" THEN Method("do_bar")
        ELSE Method("do_foo")]

\* Variant: the help entry is left out of the table.
_create_operations_table_nohelp(self) ==
    [k \in {"foo", "bar"} |->
        IF k = "bar" THEN Method("do_bar") ELSE Method("do_foo")]

_create_operations_table(self) ==
    LET t0 == EmptyTable
        t1 == SetItem(t0, "foo", Method("do_foo"))
        t2 == SetItem(t1, "bar", Method("do_bar"))
        t3 == SetItem(t2, "help", ConfigHelpCommand(self.session, self))
    IN  t3

_create_service_parser(self, operation_table) ==
    ServiceArgParser(operation_table, self.name)

\* Calling an entry of the operation table.
CallHandler(h, self, remaining_args, globals, registry) ==
    CASE h = Method("do_foo") ->
            WithRegistry(do_foo(self, remaining_args, globals), registry)
      [] h = Method("do_bar") ->
            WithRegistry(do_bar(self, remaining_args, globals), registry)
      [] h.kind = "ConfigHelpCommand" -> HelpCommand_call(h, registry)

\* The record of one handler call.
CallRecord(operation, h, remaining_args, globals) ==
    [operation |-> operation, handler |-> h,
     remaining_args |-> remaining_args, parsed_globals |-> globals]

\* How a call of the dispatcher ends when the parser raised.
UsageError(table, registry) ==
    [op_table |-> table, raised |-> TRUE, code |-> 2,
     calls |-> <<>>, out |-> <<>>, doc |-> <<>>, ret |-> NoValue,
     registry |-> registry]

\* Variant: the help entry is called whatever operation was parsed.
__call___always_help(self, tokens, globals, registry) ==
    LET table == _create_operations_table(self)
        parsed == parse_known_args(_create_service_parser(self, table), tokens)
    IN  IF parsed.error THEN UsageError(table, registry)
        ELSE LET h == table["help"]
                 e == CallHandler(h, self, parsed.remaining, globals, registry)
             IN  [op_table |-> table, raised |-> FALSE, code |-> 0,
                  calls |-> <<CallRecord(parsed.operation, h,
                                         parsed.remaining, globals)>>,
                  out |-> e.out, doc |-> e.doc, ret |-> e.ret,
                  registry |-> e.registry]

\* Variant: the handler is given args instead of the remaining tokens.
__call___all_tokens(self, tokens, globals, registry) ==
    LET table == _create_operations_table(self)
        parsed == parse_known_args(_create_service_parser(self, table), tokens)
    IN  IF parsed.error THEN UsageError(table, registry)
        ELSE LET h == table[parsed.operation]
                 e == CallHandler(h, self, tokens, globals, registry)
             IN  [op_table |-> table, raised |-> FALSE, code |-> 0,
                  calls |-> <<CallRecord(parsed.operation, h, tokens, globals)>>,
                  out |-> e.out, doc |-> e.doc, ret |-> e.ret,
                  registry |-> e.registry]

\* Variant: the handler is called once more for its return value.
__call___twice(self, tokens, globals, registry) ==
    LET table == _create_operations_table(self)
        parsed == parse_known_args(_create_service_parser(self, table), tokens)
    IN  IF parsed.error THEN UsageError(table, registry)
        ELSE LET h == table[parsed.operation]
                 e == CallHandler(h, self, parsed.remaining, globals, registry)
                 c == CallRecord(parsed.operation, h, parsed.remaining, globals)
             IN  [op_table |-> table, raised |-> FALSE, code |-> 0,
                  calls |-> <<c, c>>,
                  out |-> e.out \o e.out, doc |-> e.doc \o e.doc,
                  ret |-> e.ret, registry |-> e.registry]

\* ConfigCommand.__call__(self, args, parsed_globals), run with the session
\* registry as it is at the call.  The result records the table built, the
\* handler calls made, what was written, and how the call ended.
__call__(self, tokens, globals, registry) ==
    LET table == _create_operations_table(self)
        command_parser == _create_service_parser(self, table)
        parsed == parse_known_args(command_parser, tokens)
    IN  IF parsed.error
          THEN UsageError(table, registry)
        ELSE LET h == table[parsed.operation]
                 e == CallHandler(h, self, parsed.remaining, globals, registry)
             IN  [op_table |-> table, raised |-> FALSE, code |-> 0,
                  calls |-> <<CallRecord(parsed.operation, h,
                                         parsed.remaining, globals)>>,
                  out |-> e.out, doc |-> e.doc, ret |-> e.ret,
                  registry |-> e.registry]

----------------------------------------------------------------------------
(* Registration.                                                           *)

\* Event names are pairs <<name, qualifier>>; the host event has none.
BuildingCommandTable == <<"building-command-table", "">>

\* Variant: an entry already in the table is kept (setdefault).
add_command_keep(table, session, serial) ==
    IF "config" \in DOMAIN table THEN table
    ELSE SetItem(table, "config", ConfigCommand("config", session, serial))

\* Variant: the table is replaced instead of extended.
add_command_replace(table, session, serial) ==
    SetItem(EmptyTable, "config", ConfigCommand("config", session, serial))

add_command(table, session, serial) ==
    SetItem(table, "config", ConfigCommand("config", session, serial))

\* Variant: the handler is registered for another event.
awscli_initialize_other_event(registry) ==
    registry \cup {<<<<"building-command-table", "config">>, "add_command">>}

\* cli.register('building-command-table', handler=add_command)
awscli_initialize(registry) ==
    registry \cup {<<BuildingCommandTable, "add_command">>}

----------------------------------------------------------------------------
(* Host side outside examples/new_command.py.                              *)

\* A command the host itself put into the command table.
BuiltIn(name) ==
    [cls |-> "BuiltInCommand", name |-> name, session |-> "host",
     serial |-> 0, documentation |-> ""]

HostTable(names) == [n \in names |-> BuiltIn(n)]

\* The process exit status: the code of SystemExit, else sys.exit(result)
\* where a result of None counts as success.
ExitStatus(res) ==
    IF res.raised THEN res.code
    ELSE IF res.ret = NoValue THEN 0 ELSE res.ret

\* Emitting 'building-command-table': every handler registered for the
\* event is called with the table and the session.
EmitBuildingCommandTable(registry, table, session, serial) ==
    IF <<BuildingCommandTable, "add_command">> \in registry
      THEN add_command(table, session, serial)
    ELSE table

----------------------------------------------------------------------------
(* State machine.                                                          *)

NothingObserved ==
    /\ command = NoValue
    /\ lookup = "none"
    /\ args = <<>>
    /\ parsed_globals = NoValue
    /\ op_table = EmptyTable
    /\ calls = <<>>
    /\ stdout = <<>>
    /\ doc = <<>>
    /\ outcome = "none"
    /\ rc = 0

\* The dispatcher found under "config" is called with tokens and globals.
Dispatch(self, tokens, globals) ==
    LET res == __call__(self, tokens, globals, handlers)
    IN  /\ args' = tokens
        /\ parsed_globals' = globals
        /\ op_table' = res.op_table
        /\ calls' = res.calls
        /\ stdout' = res.out
        /\ doc' = res.doc
        /\ outcome' = IF res.raised THEN "SystemExit" ELSE "returned"
        /\ rc' = ExitStatus(res)
        /\ handlers' = res.registry

(* Direct use: a caller holding a command table calls add_command and the  *)
(* dispatcher registered under "config", and reads the captured output.    *)

Init ==
    /\ pc = "idle"
    /\ handlers = {}
    /\ command_table \in {HostTable(ns) : ns \in SUBSET HostCommands}
    /\ registrations = 0
    /\ NothingObserved

CallAddCommand(session) ==
    /\ pc = "idle"
    /\ registrations < MaxRegistrations
    /\ command_table' = add_command(command_table, session, registrations + 1)
    /\ registrations' = registrations + 1
    /\ UNCHANGED <<pc, handlers, command, lookup, args, parsed_globals,
                   op_table, calls, stdout, doc, outcome, rc>>

CallDispatcher(tokens, globals) ==
    /\ pc = "idle"
    /\ "config" \in DOMAIN command_table
    /\ command_table["config"].cls = "ConfigCommand"
    /\ pc' = "returned"
    /\ command' = "config"
    /\ lookup' = "found"
    /\ Dispatch(command_table["config"], tokens, globals)
    /\ UNCHANGED <<command_table, registrations>>

Observe ==
    /\ pc = "returned"
    /\ pc' = "idle"
    /\ command' = NoValue
    /\ lookup' = "none"
    /\ args' = <<>>
    /\ parsed_globals' = NoValue
    /\ op_table' = EmptyTable
    /\ calls' = <<>>
    /\ stdout' = <<>>
    /\ doc' = <<>>
    /\ outcome' = "none"
    /\ rc' = 0
    /\ UNCHANGED <<handlers, command_table, registrations>>

Next ==
    \/ \E session \in Sessions : CallAddCommand(session)
    \/ \E tokens \in ArgLists, globals \in Globals :
          CallDispatcher(tokens, globals)
    \/ Observe

Spec == Init /\ [][Next]_vars

(* Host life cycle: the plugin is loaded, the command table is built (the  *)
(* event is emitted), then the command line is dispatched once.            *)

HostInit ==
    /\ pc = "start"
    /\ handlers = {}
    /\ command_table = EmptyTable
    /\ registrations = 0
    /\ NothingObserved

LoadPlugin ==
    /\ pc = "start"
    /\ pc' = "initialized"
    /\ handlers' = awscli_initialize(handlers)
    /\ UNCHANGED <<command_table, registrations, command, lookup, args,
                   parsed_globals, op_table, calls, stdout, doc, outcome, rc>>

BuildCommandTable(names, session) ==
    /\ pc = "initialized"
    /\ pc' = "built"
    /\ command_table' = EmitBuildingCommandTable(handlers, HostTable(names),
                                                 session, registrations + 1)
    /\ registrations' =
          IF <<BuildingCommandTable, "add_command">> \in handlers
            THEN registrations + 1
          ELSE registrations
    /\ UNCHANGED <<handlers, command, lookup, args, parsed_globals, op_table,
                   calls, stdout, doc, outcome, rc>>

\* The host looks the command up in the table and calls it; a name that is
\* not in the table is a usage error of the host's own parser.
Main(name, tokens, globals) ==
    /\ pc = "built"
    /\ pc' = "exit"
    /\ command' = name
    /\ IF name \notin DOMAIN command_table
         THEN /\ lookup' = "missing"
              /\ outcome' = "SystemExit"
              /\ rc' = 2
              /\ args' = tokens
              /\ parsed_globals' = globals
              /\ UNCHANGED <<handlers, op_table, calls, stdout, doc>>
       ELSE IF command_table[name].cls = "ConfigCommand"
         THEN /\ lookup' = "found"
              /\ Dispatch(command_table[name], tokens, globals)
       ELSE /\ lookup' = "found"
            /\ outcome' = "returned"
            /\ rc' = 0
            /\ args' = tokens
            /\ parsed_globals' = globals
            /\ UNCHANGED <<handlers, op_table, calls, stdout, doc>>
    /\ UNCHANGED <<command_table, registrations>>

HostNext ==
    \/ LoadPlugin
    \/ \E names \in SUBSET HostCommands, session \in Sessions :
          BuildCommandTable(names, session)
    \/ \E name \in HostCommands \cup {"config"}, tokens \in ArgLists,
          globals \in Globals : Main(name, tokens, globals)

SpecHost == HostInit /\ [][HostNext]_vars

----------------------------------------------------------------------------
(* Properties.                                                             *)

OpNames == {"foo", "bar", "help"}

Returned == pc = "returned"

\* The tokens name verb v: v is the first token that is not an option.
LeadingVerb(tokens, v) ==
    \E i \in 1..Len(tokens) :
        /\ tokens[i] = v
        /\ \A j \in 1..(i - 1) : tokens[j] \in OptionTokens

Line(v) == IF v = "foo" THEN "do foo now" ELSE "do bar now"

Range(f) == {f[x] : x \in DOMAIN f}

(* C1: invoking the dispatcher with verb foo (bar) prints exactly the one   *)
(* line "do foo now" ("do bar now"), never the other verb's line, and the  *)
(* invocation ends with exit status 0.                                     *)
C1_FooBarOutput ==
    \A v \in {"foo", "bar"} :
        (Returned /\ LeadingVerb(args, v)) =>
            /\ stdout = <<Line(v)>>
            /\ outcome = "returned"
            /\ rc = 0

C1_Witness ==
    /\ Returned
    /\ args = <<"bar", "baz", "foo">>
    /\ stdout = <<"do bar now">>
    /\ rc = 0

(* C2: a verb that is none of foo, bar, help ends the invocation with a    *)
(* nonzero exit status (usage error of the argument parser); no            *)
(* sub-operation handler is invoked and neither do_foo nor do_bar prints.  *)
C2_UnknownVerbFails ==
    \A v \in Tokens \ (OpNames \cup OptionTokens \cup {"--"}) :
        (Returned /\ LeadingVerb(args, v)) =>
            /\ outcome = "SystemExit"
            /\ rc # 0
            /\ calls = <<>>
            /\ stdout = <<>>

C2_Witness ==
    /\ Returned
    /\ args = <<"baz", "foo">>
    /\ outcome = "SystemExit"
    /\ rc = 2

(* C3: verb help renders two sections, a title equal to "config" and a     *)
(* body containing the documentation string, ends without error and        *)
(* prints neither the foo nor the bar line.                                *)
C3_HelpRendersTitleAndBody ==
    (Returned /\ LeadingVerb(args, "help")) =>
        /\ Len(doc) = 2
        /\ doc[1] = [event |-> "doc-title", body |-> <<<<"h1", "config">>>>]
        /\ doc[2].event = "doc-description"
        /\ <<"text", "Edit the AWSCLI config file">> \in Range(doc[2].body)
        /\ outcome = "returned"
        /\ rc = 0
        /\ stdout = <<>>

C3_Witness ==
    /\ Returned
    /\ args = <<"help">>
    /\ Len(doc) = 2
    /\ doc[1].body = <<<<"h1", "config">>>>

\* A step in which add_command ran.
AddCommandStep == registrations' = registrations + 1

(* C4: a second add_command on the same table leaves the key set as it     *)
(* was after the first call, and the entry under "config" is the one       *)
(* written last.                                                           *)
C4_RegistrationIdempotentOnKeys ==
    [][(AddCommandStep /\ registrations >= 1) =>
          /\ DOMAIN command_table' = DOMAIN command_table
          /\ "config" \in DOMAIN command_table'
          /\ command_table'["config"].serial = registrations'
          /\ command_table'["config"].cls = "ConfigCommand"]_vars

C4_Witness ==
    /\ registrations = 2
    /\ "config" \in DOMAIN command_table
    /\ command_table["config"].serial = 2
    /\ Cardinality(DOMAIN command_table) = 3

(* C8: add_command adds the key "config" to the key set and leaves every   *)
(* entry under another name unchanged.                                     *)
C8_RegistrationFrame ==
    [][AddCommandStep =>
          /\ DOMAIN command_table' = DOMAIN command_table \cup {"config"}
          /\ \A k \in DOMAIN command_table \ {"config"} :
                command_table'[k] = command_table[k]]_vars

C8_Witness ==
    /\ registrations = 1
    /\ DOMAIN command_table = {"s3", "ec2", "config"}
    /\ command_table["s3"] = BuiltIn("s3")

\* The operand argparse binds to 'operation': the first token that is not
\* an option, or the token after it when that first one is "--".
OperandIndex(tokens) ==
    LET nonopt == {i \in 1..Len(tokens) : tokens[i] \notin OptionTokens}
    IN  IF nonopt = {} THEN 0
        ELSE LET i == CHOOSE k \in nonopt : \A m \in nonopt : k <= m
             IN  IF tokens[i] # "--" THEN i
                 ELSE IF i < Len(tokens) THEN i + 1 ELSE 0

Operand(tokens) ==
    IF OperandIndex(tokens) = 0 THEN NoValue ELSE tokens[OperandIndex(tokens)]

\* The operation as the original wording of C5 has it: the first token
\* that is a key of the table, "help" when there is none.
ClaimedOperation(tokens) ==
    LET keyed == {i \in 1..Len(tokens) : tokens[i] \in OpNames}
    IN  IF keyed = {} THEN "help"
        ELSE tokens[CHOOSE k \in keyed : \A m \in keyed : k <= m]

(* C5 as worded: the requested sub-operation is the first token matching a *)
(* key of the Operation Table, the literal "help" otherwise, and the       *)
(* handler invoked is the table entry under that name.                     *)
C5_AsWorded ==
    Returned =>
        /\ Len(calls) = 1
        /\ calls[1].operation = ClaimedOperation(args)
        /\ calls[1].handler = op_table[ClaimedOperation(args)]

(* C5 amended: the requested sub-operation is the first token that is not  *)
(* an option string (the token after it when that one is "--"); when it is *)
(* a key of the Operation Table the handler invoked is the entry under     *)
(* that name; when there is no such token or it is not a key, parsing      *)
(* fails with a usage error and no handler is invoked ("help" is not       *)
(* substituted).                                                           *)
C5_OperandSelectsHandler ==
    Returned =>
        IF Operand(args) \in OpNames
          THEN /\ outcome = "returned"
               /\ Len(calls) = 1
               /\ calls[1].operation = Operand(args)
               /\ calls[1].handler = op_table[Operand(args)]
               /\ calls[1].handler =
                     _create_operations_table(command_table["config"])
                        [Operand(args)]
        ELSE /\ outcome = "SystemExit"
             /\ rc # 0
             /\ calls = <<>>

C5_Witness ==
    /\ Returned
    /\ args = <<"--opt", "foo", "bar">>
    /\ Len(calls) = 1
    /\ calls[1].operation = "foo"
    /\ calls[1].handler = Method("do_foo")

IsSuffix(t, s) ==
    /\ Len(t) <= Len(s)
    /\ SubSeq(s, Len(s) - Len(t) + 1, Len(s)) = t

(* C6 as worded: every token after the selected sub-operation name reaches *)
(* the handler unchanged and in order, none dropped, together with the     *)
(* unmodified global options.                                              *)
C6_AsWorded ==
    (Returned /\ calls # <<>>) =>
        /\ IsSuffix(SubSeq(args, OperandIndex(args) + 1, Len(args)),
                    calls[1].remaining_args)
        /\ calls[1].parsed_globals = parsed_globals

\* The tokens after position i, without a "--" that directly follows
\* position i as the first "--" of the command line.
AfterOperand(tokens, i) ==
    IF /\ i < Len(tokens)
       /\ tokens[i + 1] = "--"
       /\ \A j \in 1..i : tokens[j] # "--"
      THEN SubSeq(tokens, i + 2, Len(tokens))
    ELSE SubSeq(tokens, i + 1, Len(tokens))

IsOption(t) == t \in OptionTokens

(* C6 amended: every token after the selected sub-operation name, except a *)
(* "--" separator directly following it, reaches the handler unchanged and *)
(* in the original order, preceded by the option strings that stood in     *)
(* front of the name, together with the unmodified global options.         *)
C6_RemainingPassedThrough ==
    (Returned /\ calls # <<>>) =>
        LET i == OperandIndex(args)
        IN  /\ calls[1].remaining_args =
                  SelectSeq(SubSeq(args, 1, i - 1), IsOption)
                    \o AfterOperand(args, i)
            /\ calls[1].parsed_globals = parsed_globals

C6_Witness ==
    /\ Returned
    /\ args = <<"foo", "baz", "--opt">>
    /\ parsed_globals = "globals_b"
    /\ Len(calls) = 1
    /\ calls[1].remaining_args = <<"baz", "--opt">>
    /\ calls[1].parsed_globals = "globals_b"

(* C7: in a run of the host, add_command has been called exactly once, on  *)
(* the 'building-command-table' event registered by awscli_initialize, and *)
(* has put "config" into the table before any lookup or dispatch; no       *)
(* dispatch of "config" finds the table without that entry.                *)
C7_RegistrationBeforeDispatch ==
    /\ pc \in {"start", "initialized"} =>
          /\ lookup = "none"
          /\ outcome = "none"
          /\ registrations = 0
    /\ pc \in {"built", "exit"} =>
          /\ registrations = 1
          /\ "config" \in DOMAIN command_table
          /\ command_table["config"].cls = "ConfigCommand"
    /\ (pc = "exit" /\ command = "config") => lookup = "found"

C7_Witness ==
    /\ pc = "exit"
    /\ command = "config"
    /\ lookup = "found"
    /\ registrations = 1
    /\ args = <<"foo">>
    /\ stdout = <<"do foo now">>

\* What a caller can observe of a dispatcher call.
Observable(res) ==
    <<res.out, res.doc, res.raised, ExitStatus(res),
      [i \in DOMAIN res.calls |->
          <<res.calls[i].operation, res.calls[i].remaining_args,
            res.calls[i].parsed_globals>>]>>

Observed ==
    <<stdout, doc, outcome = "SystemExit", rc,
      [i \in DOMAIN calls |->
          <<calls[i].operation, calls[i].remaining_args,
            calls[i].parsed_globals>>]>>

(* C9: every invocation builds an Operation Table with exactly the keys    *)
(* foo, bar and help; nothing is left behind in the session, and what the  *)
(* invocation does is what a newly made dispatcher does on the same        *)
(* arguments, whatever was registered or invoked before.                   *)
C9_FreshTableNoHistory ==
    Returned =>
        /\ DOMAIN op_table = OpNames
        /\ Cardinality(DOMAIN op_table) = 3
        /\ handlers = {}
        /\ \A session \in Sessions, serial \in 0..MaxRegistrations :
              Observable(__call__(ConfigCommand("config", session, serial),
                                  args, parsed_globals, {})) = Observed

C9_Witness ==
    /\ Returned
    /\ registrations = 2
    /\ args = <<"help", "foo">>
    /\ DOMAIN op_table = {"foo", "bar", "help"}
    /\ Len(doc) = 2

\* A step in which the dispatcher ran.
DispatcherStep == pc = "idle" /\ pc' = "returned"

(* C10: an invocation calls at most one sub-operation handler, exactly one *)
(* when the verb is in the Operation Table and none when argument parsing  *)
(* fails, and it leaves the host's Command Table unchanged.                *)
C10_AtMostOneHandler ==
    [][DispatcherStep =>
          /\ command_table' = command_table
          /\ Len(calls') <= 1
          /\ (Operand(args') \in OpNames) => Len(calls') = 1
          /\ (outcome' = "SystemExit") => calls' = <<>>
          /\ (outcome' = "returned") => Len(calls') = 1]_vars

C10_Witness ==
    /\ Returned
    /\ args = <<"bar", "foo">>
    /\ Len(calls) = 1
    /\ stdout = <<"do bar now">>
    /\ DOMAIN command_table = {"s3", "config"}

====
